---- MODULE Spec2Model ----
(***************************************************************************)
(* Steel investment economics: the yearly projection loop of               *)
(* SteelInvestmentAnalyzer.calculate_investment_analysis and of            *)
(* flask_app.calculate_detailed_analysis, and the IRR solvers of           *)
(* SteelInvestmentAnalyzer and FinancialCalculator.                        *)
(*                                                                         *)
(* Python and numpy floats are modelled as exact extended rationals        *)
(* <<n, d>>: d > 0 is the reduced fraction n/d, <<1, 0>> and <<-1, 0>> are  *)
(* +inf and -inf, <<0, 0>> is nan.  Rounding error of the binary floating  *)
(* point format is not modelled.                                           *)
(***************************************************************************)
EXTENDS Integers, Sequences, FiniteSets, TLC

----------------------------------------------------------------------------
(* Float arithmetic *)

Abs(x) == IF x < 0 THEN -x ELSE x

RECURSIVE GCD(_, _)
GCD(a, b) == IF b = 0 THEN a ELSE GCD(b, a % b)

\* the reduced fraction n/d, d > 0
Norm(n, d) ==
    LET g == GCD(Abs(n), d) IN <<n \div g, d \div g>>

R(n) == <<n, 1>>
Zero == <<0, 1>>
NaN == <<0, 0>>
PosInf == <<1, 0>>
NegInf == <<-1, 0>>

IsNaN(a) == a = NaN
IsInf(a) == a = PosInf \/ a = NegInf
IsFinite(a) == a[2] > 0
Sign(a) == IF a[1] > 0 THEN 1 ELSE IF a[1] < 0 THEN -1 ELSE 0

RNeg(a) == <<-a[1], a[2]>>

\* a + b
RAdd(a, b) ==
    IF IsNaN(a) \/ IsNaN(b) THEN NaN
    ELSE IF IsInf(a) THEN (IF IsInf(b) /\ a # b THEN NaN ELSE a)
    ELSE IF IsInf(b) THEN b
    ELSE LET g == GCD(a[2], b[2])
         IN  Norm(a[1] * (b[2] \div g) + b[1] * (a[2] \div g), (a[2] \div g) * b[2])

\* a - b
RSub(a, b) == RAdd(a, RNeg(b))

\* a * b
RMul(a, b) ==
    IF IsNaN(a) \/ IsNaN(b) THEN NaN
    ELSE IF IsInf(a) \/ IsInf(b)
         THEN (IF Sign(a) * Sign(b) = 0 THEN NaN
               ELSE IF Sign(a) * Sign(b) > 0 THEN PosInf ELSE NegInf)
    ELSE LET g1 == GCD(Abs(a[1]), b[2])
             g2 == GCD(Abs(b[1]), a[2])
         IN  Norm((a[1] \div g1) * (b[1] \div g2), (a[2] \div g2) * (b[2] \div g1))

\* a / b for numpy scalars: a zero divisor gives inf or nan (with a warning), no exception
RDiv(a, b) ==
    IF IsNaN(a) \/ IsNaN(b) THEN NaN
    ELSE IF IsInf(b) THEN (IF IsInf(a) THEN NaN ELSE Zero)
    ELSE IF b[1] = 0
         THEN (IF Sign(a) = 0 THEN NaN ELSE IF Sign(a) > 0 THEN PosInf ELSE NegInf)
    ELSE IF IsInf(a) THEN (IF Sign(a) * Sign(b) > 0 THEN PosInf ELSE NegInf)
    ELSE RMul(a, IF b[1] > 0 THEN <<b[2], b[1]>> ELSE <<-b[2], -b[1]>>)

\* n1/d1 < n2/d2 for d1, d2 > 0, by continued fractions (no products)
RECURSIVE FracLess(_, _, _, _)
FracLess(n1, d1, n2, d2) ==
    LET q1 == n1 \div d1
        q2 == n2 \div d2
        r1 == n1 % d1
        r2 == n2 % d2
    IN  IF q1 # q2 THEN q1 < q2
        ELSE IF r2 = 0 THEN FALSE
        ELSE IF r1 = 0 THEN TRUE
        ELSE FracLess(d2, r2, d1, r1)

\* a < b; every comparison with nan is false
RLess(a, b) ==
    IF IsNaN(a) \/ IsNaN(b) THEN FALSE
    ELSE IF a = b THEN FALSE
    ELSE IF a = NegInf \/ b = PosInf THEN TRUE
    ELSE IF a = PosInf \/ b = NegInf THEN FALSE
    ELSE FracLess(a[1], a[2], b[1], b[2])

\* a <= b
RLeq(a, b) ==
    IF IsNaN(a) \/ IsNaN(b) THEN FALSE ELSE a = b \/ RLess(a, b)

\* Python's max(0, x): x only when x > 0 (so max(0, nan) is 0)
Max0(x) == IF RLess(Zero, x) THEN x ELSE Zero

\* abs(x)
RAbs(x) == IF x[1] < 0 THEN RNeg(x) ELSE x

----------------------------------------------------------------------------
(* Bounds of the model and the value sets the inputs are drawn from *)

MaxConstructionPeriod == 5
MaxBusinessPeriod == 3

Engines == {"analyzer", "flask"}

\* percentages and amounts as the callers enter them
TotalInvestments == {0, 1200}
GracePeriods == {1, 4}
RepaymentPeriods == {0, 2}
\* <<receivables, payables, product inventory, material inventory>> days
WorkingCapitalDays == {<<0, 0, 0, 0>>, <<73, 146, 73, 73>>}
\* historical sums <<total revenue, total quantity>>
SalesData == {<<0, 0>>, <<20, 0>>, <<0, 10>>, <<20, 10>>}
\* historical means <<material cost, processing cost>> per unit
CostData == {<<0, 0>>, <<1, 1>>}
\* <<year5_volume, year6_volume, year7_plus_volume>>
Volumes == {<<70000, 80000, 100000>>, <<0, 0, 0>>}
\* <<machinery_depreciation_years, building_depreciation_years>> a caller may supply
DepreciationYears == {<<15, 20>>, <<10, 40>>}

----------------------------------------------------------------------------
(* State *)

VARIABLES
    engine,                    \* which projection runs: the analyzer's or the flask app's
    params,                    \* the parameter dictionary of the call
    sales_data, cost_data,     \* the historical sums and means
    pc,                        \* position in the call
    unit_price, material_cost_per_unit, processing_cost_per_unit,
    annual_repayment,
    year,                      \* the loop variable
    debt_balance,              \* running debt balance
    previous_working_capital,  \* working capital of the year before
    results,                   \* one record per finished year
    cash_flows,                \* net cash flows handed to the solver
    irr,                       \* the solver's answer: None or a rate
    solver,                    \* which calculate_irr runs
    rate,                      \* fsolve's answer, then the Newton-Raphson iterate
    iterations,                \* Newton-Raphson iterations done
    irr_path                   \* the return statement that produced irr

VARIABLES
    npv_value,                 \* the NPV the solver evaluated last
    irr_pct,                   \* the IRR figure of the analyzer's result page
    api_irr,                   \* the 'irr' entry of the flask app's JSON answer
    base_params, base_cost_data, base_sales_data,   \* the sampler's base case
    variable_type,             \* the driver a Monte Carlo run perturbs
    n_simulations,             \* the number of draws asked for
    draw,                      \* the draw loop's position: draws finished so far
    factor,                    \* the clamped factor of the draw (the grid's three changes)
    modified_params, modified_cost_data, modified_sales_data,
    scenario,                  \* how the engine call of the last run ended
    base_irr,                  \* the IRR of the base run
    irr_results, factor_values,    \* the collected samples
    stats_dict,                \* the value perform_single_variable_monte_carlo returns
    sample_points, sample_irrs,    \* the grid's retained combinations
    attempted,                 \* the combinations the engine was run on, in order
    regression                 \* how the regression section ended

projection_vars == <<engine, params, sales_data, cost_data, unit_price,
                     material_cost_per_unit, processing_cost_per_unit, annual_repayment,
                     year, debt_balance, previous_working_capital, results>>

solver_vars == <<solver, rate, iterations, irr_path>>

VARIABLES
    rng_state,                 \* the state of numpy's global random generator
    call_log,                  \* the finished calls of a process, with what they returned
    current_page,              \* st.session_state['current_page']
    current_mode,              \* st.session_state['current_mode']
    session_keys,              \* the other keys st.session_state holds
    rendered                   \* what the last run of the script showed

presentation_vars == <<irr_pct, api_irr>>

session_vars == <<rng_state, call_log, current_page, current_mode, session_keys, rendered>>

sampler_vars == <<base_params, base_cost_data, base_sales_data, variable_type,
                  n_simulations, draw, factor, modified_params, modified_cost_data,
                  modified_sales_data, scenario, base_irr, irr_results, factor_values,
                  stats_dict, sample_points, sample_irrs, attempted, regression>>

caller_vars == <<presentation_vars, sampler_vars, session_vars>>

vars == <<projection_vars, pc, cash_flows, irr, solver_vars, npv_value, caller_vars>>

None == [solved |-> FALSE, value |-> Zero]
Some(r) == [solved |-> TRUE, value |-> r]

\* the result of perform_single_variable_monte_carlo when no sample was collected
NoData ==
    [populated |-> FALSE, base_irr |-> None, mean_irr |-> Zero, min_irr |-> Zero,
     max_irr |-> Zero, irr_results |-> <<>>, factor_values |-> <<>>,
     variable_type |-> "none"]

\* the process-wide and session-wide variables while nothing uses them
SessionIdle ==
    /\ rng_state = 0
    /\ call_log = <<>>
    /\ current_page = "input"
    /\ current_mode = "real"
    /\ session_keys = {}
    /\ rendered = "nothing"

\* the presenters' and the sampler's variables while none of them runs
SamplerIdle ==
    /\ irr_pct = Zero
    /\ api_irr = None
    /\ base_params = [total_investment |-> Zero]
    /\ base_cost_data = <<Zero, Zero>>
    /\ base_sales_data = [revenue |-> <<>>, volume |-> Zero]
    /\ variable_type = "none"
    /\ n_simulations = 0
    /\ draw = 0
    /\ factor = Zero
    /\ modified_params = [total_investment |-> Zero]
    /\ modified_cost_data = <<Zero, Zero>>
    /\ modified_sales_data = [revenue |-> <<>>, volume |-> Zero]
    /\ scenario = [raised |-> FALSE, irr |-> None]
    /\ base_irr = None
    /\ irr_results = <<>>
    /\ factor_values = <<>>
    /\ stats_dict = NoData
    /\ sample_points = <<>>
    /\ sample_irrs = <<>>
    /\ attempted = <<>>
    /\ regression = "none"

\* the callers' variables while no caller runs
CallerIdle == SessionIdle /\ SamplerIdle

\* the engines' and the solvers' variables while none of them runs
EngineIdle ==
    /\ engine = "analyzer"
    /\ params = [business_period |-> 0]
    /\ sales_data = <<0, 0>>
    /\ cost_data = <<0, 0>>
    /\ unit_price = Zero
    /\ material_cost_per_unit = Zero
    /\ processing_cost_per_unit = Zero
    /\ annual_repayment = Zero
    /\ year = 0
    /\ debt_balance = Zero
    /\ previous_working_capital = Zero
    /\ results = <<>>
    /\ cash_flows = <<>>
    /\ irr = None
    /\ solver = "none"
    /\ rate = Zero
    /\ iterations = 0
    /\ irr_path = "none"
    /\ npv_value = Zero

----------------------------------------------------------------------------
(* The projection: one year of the loop, piece by piece *)

\* a list of n copies of x; no copies when n is negative
Rep(x, n) == [i \in 1..(IF n > 0 THEN n ELSE 0) |-> x]

Pct(x) == Norm(x, 100)

total_period(p) == p.business_period + p.construction_period

\* the yearly volume list: four zero years, year 5, year 6, then the year-7 volume
sales_volumes(e, p) ==
    IF e = "analyzer"
    THEN <<0, 0, 0, 0, 70000, 80000>> \o Rep(100000, total_period(p) - 6)
    ELSE <<0, 0, 0, 0, p.year5_volume, p.year6_volume>>
             \o Rep(p.year7_plus_volume, total_period(p) - 6)

\* faulty variant: every year sells the final volume
sales_volume_final(e, p, y) ==
    LET sv == sales_volumes(e, p)
    IN  sv[Len(sv)]

sales_volume(e, p, y) ==
    LET sv == sales_volumes(e, p)
    IN  IF y <= Len(sv) THEN sv[y] ELSE sv[Len(sv)]

investment_execution(p) ==
    <<Norm(3, 10), Norm(3, 10), Norm(3, 10), Norm(1, 10)>> \o Rep(Zero, total_period(p) - 4)

investment(p, y) ==
    LET ie == investment_execution(p)
    IN  IF y <= Len(ie) THEN RMul(R(p.total_investment), ie[y]) ELSE Zero

\* faulty variant: depreciation already starts in the last construction year
depreciation_from_construction(p, y) ==
    IF y >= p.construction_period
    THEN RAdd(RDiv(RMul(R(p.total_investment), Pct(p.machinery_ratio)), R(15)),
              RDiv(RMul(R(p.total_investment), Pct(p.building_ratio)), R(20)))
    ELSE Zero

depreciation(p, y) ==
    IF y > p.construction_period
    THEN RAdd(RDiv(RMul(R(p.total_investment), Pct(p.machinery_ratio)), R(15)),
              RDiv(RMul(R(p.total_investment), Pct(p.building_ratio)), R(20)))
    ELSE Zero

\* faulty variant: the ratio taken as a factor instead of a percentage
debt_increase_unscaled(p, inv) == RMul(inv, R(p.debt_ratio))

debt_increase(p, inv) == RMul(inv, Pct(p.debt_ratio))

\* faulty variant: repayment already starts in the last grace year
debt_decrease_from_grace(p, y, repayment) ==
    IF y >= p.grace_period /\ y <= p.grace_period + p.repayment_period
    THEN repayment
    ELSE Zero

debt_decrease(p, y, repayment) ==
    IF y > p.grace_period /\ y <= p.grace_period + p.repayment_period
    THEN repayment
    ELSE Zero

\* working capital of a year from its revenue and its material cost
working_capital(e, p, rev, mat) ==
    LET receivables == RMul(RDiv(rev, R(365)), R(p.receivables_days))
        product_inventory == RDiv(RMul(rev, R(p.product_inventory_days)), R(365))
        payables == RMul(RDiv(mat, R(365)), R(p.payables_days))
        material_inventory == RDiv(RMul(mat, R(p.material_inventory_days)), R(365))
    IN  IF e = "analyzer"
        THEN LET rec == IF RLess(Zero, rev) THEN receivables ELSE Zero
                 pin == IF RLess(Zero, rev) THEN product_inventory ELSE Zero
                 pay == IF RLess(Zero, mat) THEN payables ELSE Zero
                 min == IF RLess(Zero, mat) THEN material_inventory ELSE Zero
             IN  RAdd(RSub(rec, pay), RAdd(pin, min))
        ELSE IF RLess(Zero, rev)
             THEN LET min == IF RLess(Zero, mat) THEN material_inventory ELSE Zero
                      pay == IF RLess(Zero, mat) THEN payables ELSE Zero
                  IN  RSub(RAdd(RAdd(receivables, product_inventory), min), pay)
             ELSE Zero

\* faulty variant: the first operating year is measured against zero
working_capital_increase_from_zero(p, y, wc, prev) ==
    IF y > p.construction_period
    THEN (IF y = p.construction_period + 1 THEN wc ELSE RSub(wc, prev))
    ELSE Zero

\* faulty variant: the difference is taken in construction years too
working_capital_increase_every_year(p, y, wc, prev) == RSub(wc, prev)

working_capital_increase(p, y, wc, prev) ==
    IF y > p.construction_period THEN RSub(wc, prev) ELSE Zero

\* faulty variant: no floor at zero
corporate_tax_unfloored(p, pretax) == RMul(pretax, Pct(p.tax_rate))

corporate_tax(p, pretax) == Max0(RMul(pretax, Pct(p.tax_rate)))

\* faulty variant: depreciation counted over the whole period
residual_value_whole_period(p, y, dep) ==
    IF y = total_period(p)
    THEN RSub(R(p.total_investment), RMul(dep, R(total_period(p))))
    ELSE Zero

residual_value(p, y, dep) ==
    IF y = total_period(p)
    THEN RSub(R(p.total_investment), RMul(dep, R(total_period(p) - p.construction_period)))
    ELSE Zero

working_capital_recovery(p, y, wc) ==
    IF y = total_period(p) THEN wc ELSE Zero

\* the record of year y, given the balance and the working capital carried into it
year_data(e, p, price, mcpu, pcpu, repayment, y, balance, prev) ==
    LET vol == R(sales_volume(e, p, y))
        rev == RMul(price, vol)
        mat == RMul(mcpu, vol)
        proc == RMul(pcpu, vol)
        dep == depreciation(p, y)
        mfg == RAdd(RAdd(mat, proc), dep)
        inv == investment(p, y)
        dinc == debt_increase(p, inv)
        ddec == debt_decrease(p, y, repayment)
        bal == RSub(RAdd(balance, dinc), ddec)
        fin == RMul(bal, Pct(p.long_term_rate))
        wc == working_capital(e, p, rev, mat)
        wci == working_capital_increase(p, y, wc, prev)
        sga == RMul(rev, Pct(p.sales_admin_ratio))
        ebit == RSub(RSub(rev, mfg), sga)
        pretax == RSub(ebit, fin)
        tax == corporate_tax(p, pretax)
        net == RSub(pretax, tax)
        res == residual_value(p, y, dep)
        rcv == working_capital_recovery(p, y, wc)
        inflow == RAdd(RAdd(RAdd(RAdd(net, fin), dep), res), rcv)
        outflow == RAdd(inv, wci)
    IN  [year |-> y, sales_volume |-> vol, total_revenue |-> rev, material_cost |-> mat,
         processing_cost |-> proc, depreciation |-> dep, manufacturing_cost |-> mfg,
         investment |-> inv, debt_increase |-> dinc, debt_decrease |-> ddec,
         debt_balance |-> bal, financial_cost |-> fin, working_capital |-> wc,
         working_capital_increase |-> wci, sales_admin_cost |-> sga, ebit |-> ebit,
         pretax_income |-> pretax, corporate_tax |-> tax, net_income |-> net,
         residual_value |-> res, working_capital_recovery |-> rcv,
         cash_inflow |-> inflow, cash_outflow |-> outflow,
         net_cash_flow |-> RSub(inflow, outflow)]

\* the unit selling price from the historical sums
unit_selling_price(e, sd) ==
    IF e = "analyzer"
    THEN (IF sd[2] > 0 THEN RDiv(R(sd[1]), R(sd[2])) ELSE Zero)
    ELSE RDiv(R(sd[1]), R(sd[2]))

----------------------------------------------------------------------------
(* Actions of the projection *)

ParamSets ==
    [business_period : 0..MaxBusinessPeriod,
     construction_period : 0..MaxConstructionPeriod,
     total_investment : TotalInvestments,
     machinery_ratio : {80}, building_ratio : {20},
     debt_ratio : {50}, long_term_rate : {10},
     grace_period : GracePeriods, repayment_period : RepaymentPeriods,
     tax_rate : {25}, sales_admin_ratio : {10},
     receivables_days : {0, 73}, payables_days : {0, 146},
     product_inventory_days : {0, 73}, material_inventory_days : {0, 73},
     year5_volume : {0, 70000}, year6_volume : {0, 80000}, year7_plus_volume : {0, 100000},
     machinery_depreciation_years : {10, 15}, building_depreciation_years : {20, 40}]

Init ==
    /\ engine \in Engines
    /\ params \in {p \in ParamSets :
          /\ <<p.receivables_days, p.payables_days, p.product_inventory_days,
               p.material_inventory_days>> \in WorkingCapitalDays
          /\ <<p.year5_volume, p.year6_volume, p.year7_plus_volume>> \in Volumes
          /\ (engine = "analyzer" =>
                 <<p.year5_volume, p.year6_volume, p.year7_plus_volume>>
                     = <<70000, 80000, 100000>>)
          /\ <<p.machinery_depreciation_years, p.building_depreciation_years>>
                 \in DepreciationYears}
    /\ sales_data \in SalesData
    /\ cost_data \in CostData
    /\ pc = "start"
    /\ unit_price = Zero
    /\ material_cost_per_unit = Zero
    /\ processing_cost_per_unit = Zero
    /\ annual_repayment = Zero
    /\ year = 0
    /\ debt_balance = Zero
    /\ previous_working_capital = Zero
    /\ results = <<>>
    /\ cash_flows = <<>>
    /\ irr = None
    /\ solver = "none"
    /\ rate = Zero
    /\ iterations = 0
    /\ irr_path = "none"
    /\ npv_value = Zero
    /\ CallerIdle

\* up to the loop: prices and costs from the historical data, the loan's annual repayment
Start ==
    /\ pc = "start"
    /\ UNCHANGED <<npv_value, caller_vars>>
    /\ params.repayment_period # 0
    /\ unit_price' = unit_selling_price(engine, sales_data)
    /\ material_cost_per_unit' = R(cost_data[1])
    /\ processing_cost_per_unit' = R(cost_data[2])
    /\ annual_repayment' = RDiv(RMul(R(params.total_investment), Pct(params.debt_ratio)),
                                R(params.repayment_period))
    /\ year' = 1
    /\ debt_balance' = Zero
    /\ previous_working_capital' = Zero
    /\ pc' = "loop"
    /\ UNCHANGED <<engine, params, sales_data, cost_data, results, cash_flows, irr,
                   solver_vars>>

\* the division by a zero repayment period raises ZeroDivisionError out of the call
StartRaises ==
    /\ pc = "start"
    /\ UNCHANGED <<npv_value, caller_vars>>
    /\ params.repayment_period = 0
    /\ unit_price' = unit_selling_price(engine, sales_data)
    /\ material_cost_per_unit' = R(cost_data[1])
    /\ processing_cost_per_unit' = R(cost_data[2])
    /\ pc' = "raised"
    /\ UNCHANGED <<engine, params, sales_data, cost_data, annual_repayment, year,
                   debt_balance, previous_working_capital, results, cash_flows, irr,
                   solver_vars>>

\* one iteration of the year loop
YearStep ==
    /\ pc = "loop"
    /\ UNCHANGED <<npv_value, caller_vars>>
    /\ year <= total_period(params)
    /\ LET yd == year_data(engine, params, unit_price, material_cost_per_unit,
                           processing_cost_per_unit, annual_repayment, year,
                           debt_balance, previous_working_capital)
       IN  /\ results' = Append(results, yd)
           /\ debt_balance' = yd.debt_balance
           /\ previous_working_capital' = yd.working_capital
    /\ year' = year + 1
    /\ UNCHANGED <<engine, params, sales_data, cost_data, pc, unit_price,
                   material_cost_per_unit, processing_cost_per_unit, annual_repayment,
                   cash_flows, irr, solver_vars>>

\* after the loop: the cash-flow list
Finish ==
    /\ pc = "loop"
    /\ UNCHANGED <<npv_value, caller_vars>>
    /\ year > total_period(params)
    /\ cash_flows' = [i \in 1..Len(results) |-> results[i].net_cash_flow]
    /\ pc' = "done"
    /\ UNCHANGED <<engine, params, sales_data, cost_data, unit_price,
                   material_cost_per_unit, processing_cost_per_unit, annual_repayment,
                   year, debt_balance, previous_working_capital, results, irr,
                   solver_vars>>

Next == Start \/ StartRaises \/ YearStep \/ Finish

Spec == Init /\ [][Next]_vars

----------------------------------------------------------------------------
(* Properties of the projection *)

\* the years recorded so far
Years == 1..Len(results)

\* the balance (or working capital) carried into year y: 0 before year 1
Carried(field, y) == IF y = 1 THEN Zero ELSE results[y - 1][field]

\* C2: the projection is total: it never raises, whatever the repayment period, the grace
\* period and the historical sums are, it ends with one record per year 1..total_years,
\* and the unit price whose denominator (the historical volume) is 0 is 0
ProjectionTotal ==
    /\ pc # "raised"
    /\ pc = "done" => Len(results) = total_period(params)
    /\ (pc \in {"loop", "done"} /\ sales_data[2] = 0) => unit_price = Zero

\* C3: in every year the debt balance is the balance of the year before (0 before year 1)
\* plus the year's debt increase minus its debt decrease; the debt decrease is
\* total_investment * debt_ratio / repayment_period in the years grace_period < y <=
\* grace_period + repayment_period and 0 in all others; the financial cost is the
\* balance after the year's changes times the interest rate
DebtRecurrence ==
    \A y \in Years :
        LET yd == results[y]
            in_window == y > params.grace_period
                         /\ y <= params.grace_period + params.repayment_period
            instalment == RDiv(RMul(R(params.total_investment), Pct(params.debt_ratio)),
                               R(params.repayment_period))
        IN  /\ yd.debt_balance
                 = RSub(RAdd(Carried("debt_balance", y), yd.debt_increase), yd.debt_decrease)
            /\ yd.debt_decrease = IF in_window THEN instalment ELSE Zero
            /\ yd.financial_cost = RMul(yd.debt_balance, Pct(params.long_term_rate))

\* a repayment year that still draws debt and carries a balance into the next year
DebtRecurrenceWitness ==
    \E y \in Years :
        /\ y + 1 \in Years
        /\ results[y].debt_decrease # Zero
        /\ results[y].debt_increase # Zero
        /\ results[y].debt_balance # Zero
        /\ results[y + 1].financial_cost # Zero
        /\ results[y + 1].financial_cost # RMul(results[y].debt_balance, Pct(params.long_term_rate))

\* C4 as stated: the debt increase of a year after the grace period is 0 even when the
\* year has investment, and investment * debt_ratio in the years up to the grace period
DebtIncreaseStopsAfterGrace ==
    \A y \in Years :
        results[y].debt_increase
            = IF y > params.grace_period
              THEN Zero
              ELSE RMul(results[y].investment, Pct(params.debt_ratio))

\* C4 amended: the debt increase of every year, before and after the grace period, is the
\* year's investment times the debt ratio
DebtIncreaseFollowsInvestment ==
    \A y \in Years :
        results[y].debt_increase = RMul(results[y].investment, Pct(params.debt_ratio))

\* a year after the grace period with investment, and so with new debt
DebtIncreaseWitness ==
    \E y \in Years :
        /\ y > params.grace_period
        /\ results[y].investment # Zero
        /\ results[y].debt_increase # Zero

\* depreciation of an operating year with the given useful lives
StraightLine(machinery_years, building_years) ==
    RAdd(RDiv(RMul(R(params.total_investment), Pct(params.machinery_ratio)),
              R(machinery_years)),
         RDiv(RMul(R(params.total_investment), Pct(params.building_ratio)),
              R(building_years)))

WorkingCapitalIncreaseIsDifference ==
    \A y \in Years :
        y > params.construction_period =>
            results[y].working_capital_increase
                = RSub(results[y].working_capital, Carried("working_capital", y))

\* the first operating year follows a construction year that had working capital
WorkingCapitalIncreaseWitness ==
    \E y \in Years :
        /\ y = params.construction_period + 1
        /\ y > 1
        /\ IsFinite(results[y - 1].working_capital)
        /\ results[y - 1].working_capital # Zero
        /\ results[y].working_capital_increase # results[y].working_capital

\* a working-capital component: driver / 365 * days, and 0 when the driver is not positive
Component(driver, days) ==
    IF RLess(Zero, driver) THEN RMul(RDiv(driver, R(365)), R(days)) ELSE Zero

\* C7: the working capital of every year is receivables - payables + product inventory
\* + material inventory; receivables and product inventory are driven by the revenue,
\* payables and material inventory by the material cost, and each is 0 when its own
\* driver is 0, independently of the other driver: revenue 0 with a positive material
\* cost gives material inventory - payables
WorkingCapitalFormula ==
    \A y \in Years :
        LET yd == results[y]
            receivables == Component(yd.total_revenue, params.receivables_days)
            payables == Component(yd.material_cost, params.payables_days)
            product_inventory == Component(yd.total_revenue, params.product_inventory_days)
            material_inventory == Component(yd.material_cost, params.material_inventory_days)
        IN  yd.working_capital
                = RAdd(RAdd(RSub(receivables, payables), product_inventory),
                       material_inventory)

\* the volume the caller's table gives year y: keys 5 and 6, else the after-7 volume
TableVolume(y) ==
    IF y = 5 THEN params.year5_volume
    ELSE IF y = 6 THEN params.year6_volume
    ELSE params.year7_plus_volume

\* C8: the sales volume of a year is 0 in the construction years, whatever the
\* construction period is, and otherwise the volume the table gives the year; the
\* revenue is the unit price times the volume
SalesVolumeFollowsConstruction ==
    \A y \in Years :
        /\ results[y].sales_volume
               = IF y <= params.construction_period THEN Zero ELSE R(TableVolume(y))
        /\ results[y].total_revenue = RMul(unit_price, results[y].sales_volume)

RECURSIVE AccumulatedDepreciation(_, _)
AccumulatedDepreciation(from, to) ==
    IF from > to THEN Zero
    ELSE RAdd(results[from].depreciation, AccumulatedDepreciation(from + 1, to))

\* C10: residual value and working-capital inflow are 0 in every year before the last;
\* in the last year the residual value is the total investment minus the depreciation of
\* the years construction_period + 1 .. total_years, and the working-capital inflow is
\* the last year's working capital
TerminalYear ==
    \A y \in Years :
        IF y < total_period(params)
        THEN /\ results[y].residual_value = Zero
             /\ results[y].working_capital_recovery = Zero
        ELSE /\ results[y].residual_value
                    = RSub(R(params.total_investment),
                           AccumulatedDepreciation(params.construction_period + 1, y))
             /\ results[y].working_capital_recovery = results[y].working_capital

\* a finished projection with construction years and several depreciated operating years
\* whose last year recovers working capital
TerminalYearWitness ==
    /\ pc = "done"
    /\ params.construction_period > 0
    /\ params.business_period > 1
    /\ LET yd == results[Len(results)]
       IN  /\ yd.residual_value # Zero
           /\ yd.residual_value # R(params.total_investment)
           /\ IsFinite(yd.working_capital_recovery)
           /\ yd.working_capital_recovery # Zero
    /\ \E y \in Years : y < Len(results) /\ results[y].working_capital # Zero

----------------------------------------------------------------------------
(* The IRR solvers: SteelInvestmentAnalyzer.calculate_irr and                           *)
(* FinancialCalculator.calculate_irr with its Newton-Raphson fallback                   *)

MaxFlows == 3
MaxNewtonIterations == 3

Solvers == {"analyzer", "calculator", "flask"}

\* amounts of the cash-flow series the solver is tried on
CashFlowValues == {-10, -1, 0, 1, 7, 11}

\* self.precision, and the 1e-6 of the analyzer's validation
precision == <<1, 1000000>>
initial_guess == <<1, 10>>
lower_bound == <<-99, 100>>
upper_bound == <<10, 1>>

\* the resolution a Newton-Raphson iterate is stored with: tenths
RateScale == 10

\* values scipy's fsolve may hand back: any float, a root or not
FsolveCandidates ==
    {R(-1), Norm(-99, 100), Norm(-1, 2), Zero, Norm(1, 10), R(1), R(5), R(6), R(10), R(11)}

RECURSIVE RPow(_, _)
RPow(x, i) == IF i = 0 THEN R(1) ELSE RMul(x, RPow(x, i - 1))

\* faulty variant: the cash flow at index i is discounted by (1 + rate)^(i + 1)
RECURSIVE npv_sum_from_one(_, _, _)
npv_sum_from_one(cfs, r, i) ==
    IF i >= Len(cfs) THEN Zero
    ELSE RAdd(RDiv(cfs[i + 1], RPow(RAdd(R(1), r), i + 1)), npv_sum_from_one(cfs, r, i + 1))

\* sum(cf / (1 + rate) ** i for i, cf in enumerate(cash_flows))
RECURSIVE npv_sum(_, _, _)
npv_sum(cfs, r, i) ==
    IF i >= Len(cfs) THEN Zero
    ELSE RAdd(RDiv(cfs[i + 1], RPow(RAdd(R(1), r), i)), npv_sum(cfs, r, i + 1))

npv_function(cfs, r) == npv_sum(cfs, r, 0)

\* sum(-i * cf / (1 + rate) ** (i + 1) for i, cf in enumerate(cash_flows))
RECURSIVE dnpv_sum(_, _, _)
dnpv_sum(cfs, r, i) ==
    IF i >= Len(cfs) THEN Zero
    ELSE RAdd(RDiv(RMul(R(-i), cfs[i + 1]), RPow(RAdd(R(1), r), i + 1)),
              dnpv_sum(cfs, r, i + 1))

dnpv_function(cfs, r) == dnpv_sum(cfs, r, 0)

\* fsolve started at 0.1: it stays there when 0.1 already is a root
fsolve(cfs) ==
    IF npv_function(cfs, initial_guess) = Zero THEN {initial_guess} ELSE FsolveCandidates

\* abs(npv_function(irr)) < 1e-6 and -0.99 < irr < 10
valid_solution(cfs, r) ==
    /\ RLess(RAbs(npv_function(cfs, r)), precision)
    /\ RLess(lower_bound, r)
    /\ RLess(r, upper_bound)

\* flask_app: rejected when abs(npv_func(irr)) > 1e-6 or irr < -0.99 or irr > 10
valid_inline_solution(cfs, r) ==
    ~(\/ RLess(precision, RAbs(npv_function(cfs, r)))
      \/ RLess(r, lower_bound)
      \/ RLess(upper_bound, r))

\* the validation the solver at hand applies to fsolve's answer
accepted(s, cfs, r) ==
    IF s = "flask" THEN valid_inline_solution(cfs, r) ELSE valid_solution(cfs, r)

\* a float iterate kept to the model's resolution (round to nearest)
stored(q) ==
    LET whole == q[1] \div q[2]
        rem == q[1] % q[2]
    IN  Norm(RateScale * whole + (2 * RateScale * rem + q[2]) \div (2 * q[2]), RateScale)

\* one pass of the Newton-Raphson loop body at iterate r
newton_raphson_pass(cfs, r) ==
    LET npv == npv_function(cfs, r)
        dnpv == dnpv_function(cfs, r)
    IN  IF RLess(RAbs(dnpv), precision)
        THEN [kind |-> "break", value |-> r]
        ELSE LET new_rate == RSub(r, RDiv(npv, dnpv))
             IN  IF RLess(RAbs(RSub(new_rate, r)), precision)
                 THEN [kind |-> "return", value |-> new_rate]
                 ELSE IF RLess(stored(new_rate), lower_bound)
                         \/ RLess(upper_bound, stored(new_rate))
                      THEN [kind |-> "none", value |-> stored(new_rate)]
                      ELSE [kind |-> "continue", value |-> stored(new_rate)]

\* return rate if abs(npv(rate)) < self.precision else None
final_check(cfs, r) ==
    IF RLess(RAbs(npv_function(cfs, r)), precision) THEN Some(r) ELSE None

FlowSeqs ==
    UNION {[1..n -> {R(v) : v \in CashFlowValues}] : n \in 0..MaxFlows}

InitIrr ==
    /\ engine = "analyzer"
    /\ params = [business_period |-> 0]
    /\ sales_data = <<0, 0>>
    /\ cost_data = <<0, 0>>
    /\ unit_price = Zero
    /\ material_cost_per_unit = Zero
    /\ processing_cost_per_unit = Zero
    /\ annual_repayment = Zero
    /\ year = 0
    /\ debt_balance = Zero
    /\ previous_working_capital = Zero
    /\ results = <<>>
    /\ pc = "irr_call"
    /\ cash_flows \in FlowSeqs
    /\ irr = None
    /\ solver \in Solvers
    /\ rate = Zero
    /\ iterations = 0
    /\ irr_path = "none"
    /\ npv_value = Zero
    /\ CallerIdle

\* FinancialCalculator.calculate_irr: fewer than two cash flows give None
TooFewCashFlows ==
    /\ pc = "irr_call"
    /\ UNCHANGED <<npv_value, caller_vars>>
    /\ solver = "calculator"
    /\ Len(cash_flows) < 2
    /\ irr' = None
    /\ irr_path' = "too_few"
    /\ pc' = "irr_done"
    /\ UNCHANGED <<projection_vars, cash_flows, solver, rate, iterations>>

\* the call of fsolve(npv_function, 0.1)
Fsolve ==
    /\ pc = "irr_call"
    /\ UNCHANGED <<npv_value, caller_vars>>
    /\ solver = "calculator" => Len(cash_flows) >= 2
    /\ rate' \in fsolve(cash_flows)
    /\ pc' = "irr_validate"
    /\ UNCHANGED <<projection_vars, cash_flows, irr, solver, iterations, irr_path>>

\* the validation of fsolve's answer; a valid one is returned
ValidateAccept ==
    /\ pc = "irr_validate"
    /\ npv_value' = npv_function(cash_flows, rate)
    /\ UNCHANGED caller_vars
    /\ accepted(solver, cash_flows, rate)
    /\ irr' = Some(rate)
    /\ irr_path' = "fsolve"
    /\ pc' = "irr_done"
    /\ UNCHANGED <<projection_vars, cash_flows, solver, rate, iterations>>

\* SteelInvestmentAnalyzer.calculate_irr and flask_app give None for an invalid answer
ValidateReject ==
    /\ pc = "irr_validate"
    /\ npv_value' = npv_function(cash_flows, rate)
    /\ UNCHANGED caller_vars
    /\ solver \in {"analyzer", "flask"}
    /\ ~accepted(solver, cash_flows, rate)
    /\ irr' = None
    /\ irr_path' = "rejected"
    /\ pc' = "irr_done"
    /\ UNCHANGED <<projection_vars, cash_flows, solver, rate, iterations>>

\* FinancialCalculator.calculate_irr falls back to _calculate_irr_newton_raphson
ValidateFallback ==
    /\ pc = "irr_validate"
    /\ npv_value' = npv_function(cash_flows, rate)
    /\ UNCHANGED caller_vars
    /\ solver = "calculator"
    /\ ~accepted(solver, cash_flows, rate)
    /\ rate' = initial_guess
    /\ iterations' = 0
    /\ pc' = "newton"
    /\ UNCHANGED <<projection_vars, cash_flows, irr, solver, irr_path>>

\* one iteration of the Newton-Raphson loop
NewtonIteration ==
    /\ pc = "newton"
    /\ npv_value' = npv_function(cash_flows, rate)
    /\ UNCHANGED caller_vars
    /\ iterations < MaxNewtonIterations
    /\ LET pass == newton_raphson_pass(cash_flows, rate)
       IN  \/ /\ pass.kind = "break"
              /\ irr' = final_check(cash_flows, rate)
              /\ irr_path' = "newton_check"
              /\ pc' = "irr_done"
              /\ UNCHANGED <<rate, iterations>>
           \/ /\ pass.kind = "return"
              /\ irr' = Some(pass.value)
              /\ irr_path' = "newton_step"
              /\ pc' = "irr_done"
              /\ UNCHANGED <<rate, iterations>>
           \/ /\ pass.kind = "none"
              /\ irr' = None
              /\ irr_path' = "newton_bounds"
              /\ rate' = pass.value
              /\ pc' = "irr_done"
              /\ UNCHANGED iterations
           \/ /\ pass.kind = "continue"
              /\ rate' = pass.value
              /\ iterations' = iterations + 1
              /\ UNCHANGED <<pc, irr, irr_path>>
    /\ UNCHANGED <<projection_vars, cash_flows, solver>>

\* the loop ran out of iterations: the return after it
NewtonExhausted ==
    /\ pc = "newton"
    /\ npv_value' = npv_function(cash_flows, rate)
    /\ UNCHANGED caller_vars
    /\ iterations >= MaxNewtonIterations
    /\ irr' = final_check(cash_flows, rate)
    /\ irr_path' = "newton_check"
    /\ pc' = "irr_done"
    /\ UNCHANGED <<projection_vars, cash_flows, solver, rate, iterations>>

NextIrr ==
    \/ TooFewCashFlows
    \/ Fsolve
    \/ ValidateAccept
    \/ ValidateReject
    \/ ValidateFallback
    \/ NewtonIteration
    \/ NewtonExhausted

SpecIrr == InitIrr /\ [][NextIrr]_vars

----------------------------------------------------------------------------
(* Properties of the solvers *)

\* C1: a rate r the solver returns is finite, lies in -1.0 <= r <= 5.0 and has
\* |NPV(r)| < 1e-6; every other outcome of the solver, the Newton-Raphson fallback's
\* included, is unsolved
ReturnedRateWithinBounds ==
    (pc = "irr_done" /\ irr.solved) =>
        /\ IsFinite(irr.value)
        /\ RLeq(R(-1), irr.value)
        /\ RLeq(irr.value, R(5))
        /\ RLess(RAbs(npv_function(cash_flows, irr.value)), precision)

----------------------------------------------------------------------------
(* The sensitivity sampler: perform_single_variable_monte_carlo.  The engine it calls, *)
(* FinancialCalculator(params, cost_data, sales_data).calculate_all_metrics(), is not   *)
(* part of the sources at hand: a call ends in one of EngineOutcomes, and the scalars   *)
(* the engine derives from a dataset are HistoricalScalars.                             *)

MaxSimulations == 2

VariableTypes == {"price", "cost", "investment"}

\* 1 + np.random.normal(0, variation / 2): below, inside and above the clamp
RawFactors == {Norm(2, 5), Norm(6, 5), Norm(5, 2)}

\* historical tables: the revenue column is named "revenue" or "total_revenue"
BaseSalesTables ==
    {[revenue |-> [c \in {col} |-> R(sums[1])], volume |-> R(sums[2])] :
         col \in {"revenue", "total_revenue"}, sums \in {<<20, 10>>, <<0, 0>>}}

\* rates an engine run may report
IrrValues == {R(-2), R(-1), R(5), R(6), NaN, PosInf}

\* how a call of the engine ends: it raises, or it returns a result with an 'irr' entry
EngineOutcomes ==
    {[raised |-> TRUE, irr |-> None]}
        \cup {[raised |-> FALSE, irr |-> v] : v \in {None} \cup {Some(x) : x \in IrrValues}}

\* the scalars the engine derives from a dataset
HistoricalScalars(sd, cd) ==
    LET col == CHOOSE c \in DOMAIN sd.revenue : TRUE
    IN  [unit_price |-> IF sd.volume = Zero THEN Zero ELSE RDiv(sd.revenue[col], sd.volume),
         material_cost_per_unit |-> cd[1],
         processing_cost_per_unit |-> cd[2]]

\* faulty variant: no clamp
clamp_nothing(f) == f

\* max(0.5, min(2.0, factor))
clamp(f) ==
    LET capped == IF RLess(f, R(2)) THEN f ELSE R(2)
    IN  IF RLess(Norm(1, 2), capped) THEN capped ELSE Norm(1, 2)

\* faulty variant: only the column named "revenue" is scaled
modified_sales_one_column(vt, sd, f) ==
    IF vt = "price"
    THEN [revenue |-> [c \in DOMAIN sd.revenue |->
                          IF c = "revenue" THEN RMul(sd.revenue[c], f) ELSE sd.revenue[c]],
          volume |-> sd.volume]
    ELSE sd

\* the copy of the sales table of a draw: revenue columns times the factor for 'price'
modified_sales(vt, sd, f) ==
    IF vt = "price"
    THEN [revenue |-> [c \in DOMAIN sd.revenue |->
                          IF c \in {"revenue", "total_revenue"}
                          THEN RMul(sd.revenue[c], f)
                          ELSE sd.revenue[c]],
          volume |-> sd.volume]
    ELSE sd

\* the copy of the cost table of a draw: both cost columns times the factor for 'cost'
modified_costs(vt, cd, f) ==
    IF vt = "cost" THEN <<RMul(cd[1], f), RMul(cd[2], f)>> ELSE cd

\* the copy of the parameters of a draw: total_investment times the factor for 'investment'
modified_parameters(vt, p, f) ==
    IF vt = "investment"
    THEN [p EXCEPT !.total_investment = RMul(p.total_investment, f)]
    ELSE p

\* the validation of a run's IRR: not None, -1.0 <= irr <= 5.0, neither nan nor inf
valid_sample(v) ==
    /\ v.solved
    /\ RLeq(R(-1), v.value)
    /\ RLeq(v.value, R(5))
    /\ ~(IsNaN(v.value) \/ IsInf(v.value))

\* faulty variant: an engine failure leaves the function
after_draw_propagating(out) == IF out.raised THEN "mc_raised" ELSE "mc_loop"

\* try: ... except Exception: continue -- where the loop goes after a draw
after_draw(out) == "mc_loop"

RECURSIVE SeqSum(_)
SeqSum(q) == IF q = <<>> THEN Zero ELSE RAdd(q[1], SeqSum(Tail(q)))

RECURSIVE SeqMin(_)
SeqMin(q) ==
    IF Len(q) = 1 THEN q[1]
    ELSE LET m == SeqMin(Tail(q)) IN IF RLess(m, q[1]) THEN m ELSE q[1]

RECURSIVE SeqMax(_)
SeqMax(q) ==
    IF Len(q) = 1 THEN q[1]
    ELSE LET m == SeqMax(Tail(q)) IN IF RLess(q[1], m) THEN m ELSE q[1]

\* faulty variant: a summary is built also from no samples
statistics_always(base, irrs, factors, vt) ==
    [populated |-> TRUE, base_irr |-> base,
     mean_irr |-> IF irrs = <<>> THEN Zero ELSE RDiv(SeqSum(irrs), R(Len(irrs))),
     min_irr |-> IF irrs = <<>> THEN Zero ELSE SeqMin(irrs),
     max_irr |-> IF irrs = <<>> THEN Zero ELSE SeqMax(irrs),
     irr_results |-> irrs, factor_values |-> factors, variable_type |-> vt]

\* the statistics after the loop (standard deviation and percentiles are further
\* functions of the same array and are left out)
statistics(base, irrs, factors, vt) ==
    IF Len(irrs) = 0
    THEN NoData
    ELSE [populated |-> TRUE, base_irr |-> base,
          mean_irr |-> RDiv(SeqSum(irrs), R(Len(irrs))),
          min_irr |-> SeqMin(irrs), max_irr |-> SeqMax(irrs),
          irr_results |-> irrs, factor_values |-> factors, variable_type |-> vt]

InitMonteCarlo ==
    /\ engine = "analyzer"
    /\ params = [business_period |-> 0]
    /\ sales_data = <<0, 0>>
    /\ cost_data = <<0, 0>>
    /\ unit_price = Zero
    /\ material_cost_per_unit = Zero
    /\ processing_cost_per_unit = Zero
    /\ annual_repayment = Zero
    /\ year = 0
    /\ debt_balance = Zero
    /\ previous_working_capital = Zero
    /\ results = <<>>
    /\ cash_flows = <<>>
    /\ irr = None
    /\ solver = "none"
    /\ rate = Zero
    /\ iterations = 0
    /\ irr_path = "none"
    /\ npv_value = Zero
    /\ irr_pct = Zero
    /\ api_irr = None
    /\ SessionIdle
    /\ pc = "mc_base"
    /\ base_params = [total_investment |-> R(1200)]
    /\ base_cost_data = <<R(3), R(1)>>
    /\ base_sales_data \in BaseSalesTables
    /\ variable_type \in VariableTypes
    /\ n_simulations \in 0..MaxSimulations
    /\ draw = 0
    /\ factor = Zero
    /\ modified_params = base_params
    /\ modified_cost_data = base_cost_data
    /\ modified_sales_data = base_sales_data
    /\ scenario = [raised |-> FALSE, irr |-> None]
    /\ base_irr = None
    /\ irr_results = <<>>
    /\ factor_values = <<>>
    /\ stats_dict = NoData
    /\ sample_points = <<>>
    /\ sample_irrs = <<>>
    /\ attempted = <<>>
    /\ regression = "none"

monte_carlo_frame ==
    <<projection_vars, cash_flows, irr, solver_vars, npv_value, presentation_vars,
      session_vars, base_params, base_cost_data, base_sales_data, variable_type,
      n_simulations, sample_points, sample_irrs, attempted, regression>>

\* the base case: it runs outside any try
BaseRun ==
    /\ pc = "mc_base"
    /\ \E out \in EngineOutcomes :
           /\ scenario' = out
           /\ base_irr' = out.irr
           /\ pc' = IF out.raised THEN "mc_raised" ELSE "mc_loop"
    /\ UNCHANGED <<monte_carlo_frame, draw, factor, modified_params, modified_cost_data,
                   modified_sales_data, irr_results, factor_values, stats_dict>>

\* one pass of the loop: the factor, the modified copies, the engine run, the validation
Draw ==
    /\ pc = "mc_loop"
    /\ draw < n_simulations
    /\ \E raw \in RawFactors, out \in EngineOutcomes :
           LET f == clamp(raw)
           IN  /\ factor' = f
               /\ modified_params' = modified_parameters(variable_type, base_params, f)
               /\ modified_cost_data' = modified_costs(variable_type, base_cost_data, f)
               /\ modified_sales_data' = modified_sales(variable_type, base_sales_data, f)
               /\ scenario' = out
               /\ IF ~out.raised /\ valid_sample(out.irr)
                  THEN /\ irr_results' = Append(irr_results, out.irr.value)
                       /\ factor_values' = Append(factor_values, f)
                  ELSE UNCHANGED <<irr_results, factor_values>>
               /\ pc' = after_draw(out)
    /\ draw' = draw + 1
    /\ UNCHANGED <<monte_carlo_frame, base_irr, stats_dict>>

\* after the loop: None without samples, the statistics otherwise
Summarise ==
    /\ pc = "mc_loop"
    /\ draw >= n_simulations
    /\ stats_dict' = statistics(base_irr, irr_results, factor_values, variable_type)
    /\ pc' = "mc_done"
    /\ UNCHANGED <<monte_carlo_frame, draw, factor, modified_params, modified_cost_data,
                   modified_sales_data, scenario, base_irr, irr_results, factor_values>>

NextMonteCarlo == BaseRun \/ Draw \/ Summarise

SpecMonteCarlo == InitMonteCarlo /\ [][NextMonteCarlo]_vars

(* Properties of the sampler *)

\* an IRR the validation has to discard: Unsolved, not finite, or outside [-1.0, 5.0]
InvalidIrr(v) ==
    \/ ~v.solved
    \/ v.value \in {NaN, PosInf, NegInf}
    \/ RLess(v.value, R(-1))
    \/ RLess(R(5), v.value)

\* C11: a draw on which the engine fails or the IRR is invalid is dropped silently: the
\* draw never leaves the loop, it adds nothing to the collected lists, and the run
\* reaches its end only after all n_simulations draws were attempted.
BadDrawIsDropped ==
    /\ [](pc = "mc_done" => draw = n_simulations)
    /\ [][(pc = "mc_loop" /\ draw < n_simulations)
             => /\ pc' = "mc_loop"
                /\ draw' = draw + 1
                /\ (scenario'.raised \/ InvalidIrr(scenario'.irr))
                       => (irr_results' = irr_results /\ factor_values' = factor_values)]_vars

BadDrawIsDroppedWitness ==
    /\ pc = "mc_done"
    /\ n_simulations = MaxSimulations
    /\ draw = n_simulations
    /\ scenario.raised
    /\ Len(irr_results) = 1

\* C12: the sampler returns NoData exactly when no sample was collected; otherwise it
\* returns a populated summary whose lists are the collected samples and whose mean,
\* minimum and maximum are those of exactly these samples.
NoDataIffNoSamples ==
    pc = "mc_done" =>
        /\ stats_dict = NoData <=> Len(irr_results) = 0
        /\ stats_dict.populated <=> Len(irr_results) > 0
        /\ stats_dict.populated =>
               /\ stats_dict.irr_results = irr_results
               /\ stats_dict.factor_values = factor_values
               /\ RMul(stats_dict.mean_irr, R(Len(irr_results))) = SeqSum(irr_results)
               /\ \E k \in 1..Len(irr_results) : stats_dict.min_irr = irr_results[k]
               /\ \E k \in 1..Len(irr_results) : stats_dict.max_irr = irr_results[k]
               /\ \A k \in 1..Len(irr_results) :
                      /\ RLeq(stats_dict.min_irr, irr_results[k])
                      /\ RLeq(irr_results[k], stats_dict.max_irr)

NoDataIffNoSamplesWitness ==
    /\ pc = "mc_done"
    /\ stats_dict.populated
    /\ Len(stats_dict.irr_results) = 2
    /\ stats_dict.min_irr # stats_dict.max_irr
    /\ draw = n_simulations

\* C13: at every point of a run the two collected lists have the same length, at most
\* the number of draws made so far and so at most n_simulations; every collected factor
\* lies in [0.5, 2.0] and every collected IRR is finite and lies in [-1.0, 5.0]; and a
\* draw that collects appends its own factor together with the IRR its run solved.
CollectedPairsAreValid ==
    /\ [](/\ Len(factor_values) = Len(irr_results)
          /\ Len(irr_results) <= draw
          /\ draw <= n_simulations
          /\ \A k \in 1..Len(irr_results) :
                 /\ RLeq(Norm(1, 2), factor_values[k])
                 /\ RLeq(factor_values[k], R(2))
                 /\ irr_results[k] \notin {NaN, PosInf, NegInf}
                 /\ RLeq(R(-1), irr_results[k])
                 /\ RLeq(irr_results[k], R(5)))
    /\ [][irr_results' # irr_results \/ factor_values' # factor_values
             => /\ scenario'.irr.solved
                /\ ~scenario'.raised
                /\ irr_results' = Append(irr_results, scenario'.irr.value)
                /\ factor_values' = Append(factor_values, factor')]_vars

CollectedPairsAreValidWitness ==
    /\ pc = "mc_loop"
    /\ irr_results = <<R(-1), R(5)>>
    /\ factor_values = <<Norm(1, 2), R(2)>>
    /\ factor = R(2)

\* C14: after a draw only the selected driver differs from the base case: for 'price'
\* the unit price is the factor times the base unit price while both unit costs, the
\* volume and total_investment are the base values; for 'cost' both unit costs are the
\* factor times their base values while unit price and total_investment are the base
\* values; for 'investment' total_investment is the factor times its base value while
\* unit price and both unit costs are the base values.
OnlySelectedDriverPerturbed ==
    LET base == HistoricalScalars(base_sales_data, base_cost_data)
        modified == HistoricalScalars(modified_sales_data, modified_cost_data)
        scaled(v) == RMul(factor, v)
        expected(b, vt) == IF variable_type = vt THEN scaled(b) ELSE b
    IN  (pc \in {"mc_loop", "mc_done"} /\ draw > 0) =>
            /\ modified.unit_price = expected(base.unit_price, "price")
            /\ modified.material_cost_per_unit
                   = expected(base.material_cost_per_unit, "cost")
            /\ modified.processing_cost_per_unit
                   = expected(base.processing_cost_per_unit, "cost")
            /\ modified_params.total_investment
                   = expected(base_params.total_investment, "investment")
            /\ modified_sales_data.volume = base_sales_data.volume

OnlySelectedDriverPerturbedWitness ==
    /\ pc = "mc_loop"
    /\ draw > 0
    /\ variable_type = "price"
    /\ factor = Norm(6, 5)
    /\ DOMAIN base_sales_data.revenue = {"total_revenue"}
    /\ HistoricalScalars(base_sales_data, base_cost_data).unit_price = R(2)
    /\ HistoricalScalars(modified_sales_data, modified_cost_data).unit_price = Norm(12, 5)
    /\ modified_cost_data = base_cost_data
    /\ modified_params = base_params

----------------------------------------------------------------------------
(* The regression over a grid of simultaneous changes (display_results).  The grids    *)
(* are shortened; the engine call again ends in one of GridOutcomes.                    *)

investment_variations == <<-50, 0, 50>>
price_variations == <<-30, 30>>
cost_variations == <<-5, 5>>

\* len(sample_irrs) >= 10
MinRegressionPoints == 10

\* the passes of the three nested loops, in order
GridSize == Len(investment_variations) * Len(price_variations) * Len(cost_variations)

\* the changes of pass k (from 1): investment outermost, cost innermost
grid_combination(k) ==
    LET per_investment == Len(price_variations) * Len(cost_variations)
        inv_i == ((k - 1) \div per_investment) + 1
        price_i == (((k - 1) % per_investment) \div Len(cost_variations)) + 1
        cost_i == ((k - 1) % Len(cost_variations)) + 1
    IN  <<investment_variations[inv_i], price_variations[price_i], cost_variations[cost_i]>>

\* 1 + change/100
change_factor(change) == RAdd(R(1), Norm(change, 100))

GridOutcomes ==
    {[raised |-> TRUE, irr |-> None]}
        \cup {[raised |-> FALSE, irr |-> v] :
                  v \in {None} \cup {Some(x) : x \in {R(0), NaN, PosInf, NegInf}}}

\* irr is not None and not np.isnan(irr) and np.isfinite(irr)
retained(v) == v.solved /\ ~IsNaN(v.value) /\ ~IsInf(v.value)

\* faulty variant: a failure ends the whole analysis in the outer handler
after_combination_propagating(out) == IF out.raised THEN "grid_error" ELSE "grid_loop"

\* try: ... except: continue -- where the loops go after a pass
after_combination(out) == "grid_loop"

\* faulty variant: ten points are not yet enough
regression_outcome_strict(n) == IF n > MinRegressionPoints THEN "LinearFit" ELSE "InsufficientData"

\* the fit when there are enough points, the error message otherwise
regression_outcome(n) == IF n >= MinRegressionPoints THEN "LinearFit" ELSE "InsufficientData"

InitGrid ==
    /\ engine = "analyzer"
    /\ params = [business_period |-> 0]
    /\ sales_data = <<0, 0>>
    /\ cost_data = <<0, 0>>
    /\ unit_price = Zero
    /\ material_cost_per_unit = Zero
    /\ processing_cost_per_unit = Zero
    /\ annual_repayment = Zero
    /\ year = 0
    /\ debt_balance = Zero
    /\ previous_working_capital = Zero
    /\ results = <<>>
    /\ cash_flows = <<>>
    /\ irr = None
    /\ solver = "none"
    /\ rate = Zero
    /\ iterations = 0
    /\ irr_path = "none"
    /\ npv_value = Zero
    /\ irr_pct = Zero
    /\ api_irr = None
    /\ SessionIdle
    /\ pc = "grid_loop"
    /\ base_params = [total_investment |-> R(1200)]
    /\ base_cost_data = <<R(3), R(1)>>
    /\ base_sales_data \in {t \in BaseSalesTables : t.volume # Zero}
    /\ variable_type = "none"
    /\ n_simulations = 0
    /\ draw = 0
    /\ factor = Zero
    /\ modified_params = base_params
    /\ modified_cost_data = base_cost_data
    /\ modified_sales_data = base_sales_data
    /\ scenario = [raised |-> FALSE, irr |-> None]
    /\ base_irr = None
    /\ irr_results = <<>>
    /\ factor_values = <<>>
    /\ stats_dict = NoData
    /\ sample_points = <<>>
    /\ sample_irrs = <<>>
    /\ attempted = <<>>
    /\ regression = "none"

grid_frame ==
    <<projection_vars, cash_flows, irr, solver_vars, npv_value, presentation_vars,
      session_vars, base_params, base_cost_data, base_sales_data, variable_type,
      n_simulations, factor, base_irr, irr_results, factor_values, stats_dict>>

\* one pass of the innermost loop: the three modified inputs, the engine run, the test
Combination ==
    /\ pc = "grid_loop"
    /\ draw < GridSize
    /\ \E out \in GridOutcomes :
           LET change == grid_combination(draw + 1)
           IN  /\ modified_params' =
                      [base_params EXCEPT !.total_investment =
                           RMul(base_params.total_investment, change_factor(change[1]))]
               /\ modified_sales_data' =
                      modified_sales("price", base_sales_data, change_factor(change[2]))
               /\ modified_cost_data' =
                      modified_costs("cost", base_cost_data, change_factor(change[3]))
               /\ attempted' = Append(attempted, change)
               /\ scenario' = out
               /\ IF ~out.raised /\ retained(out.irr)
                  THEN /\ sample_points' = Append(sample_points, change)
                       /\ sample_irrs' = Append(sample_irrs, out.irr.value)
                  ELSE UNCHANGED <<sample_points, sample_irrs>>
               /\ pc' = after_combination(out)
    /\ draw' = draw + 1
    /\ UNCHANGED <<grid_frame, regression>>

\* after the loops: the regression or the message that the data do not suffice
Regress ==
    /\ pc = "grid_loop"
    /\ draw >= GridSize
    /\ regression' = regression_outcome(Len(sample_irrs))
    /\ pc' = "grid_done"
    /\ UNCHANGED <<grid_frame, draw, modified_params, modified_cost_data,
                   modified_sales_data, scenario, sample_points, sample_irrs, attempted>>

NextGrid == Combination \/ Regress

SpecGrid == InitGrid /\ [][NextGrid]_vars

(* Properties of the grid regression *)

SeqRange(q) == {q[k] : k \in 1..Len(q)}

GridProduct ==
    {<<inv_change, price_change, cost_change>> :
         inv_change \in SeqRange(investment_variations),
         price_change \in SeqRange(price_variations),
         cost_change \in SeqRange(cost_variations)}

\* C15: the regression is reached only after every combination of the product of the
\* three grids was run exactly once, so the number of runs is the product of the three
\* grid lengths; each run has all three drivers changed by its combination; and a pass
\* whose run fails is followed by the next pass.
GridIsExhaustive ==
    /\ [](/\ \A j, k \in 1..Len(attempted) : attempted[j] = attempted[k] => j = k
          /\ SeqRange(attempted) \subseteq GridProduct
          /\ pc = "grid_done" =>
                 /\ SeqRange(attempted) = GridProduct
                 /\ Len(attempted) = Len(investment_variations) * Len(price_variations)
                                         * Len(cost_variations))
    /\ [][(pc = "grid_loop" /\ draw < GridSize) =>
             LET change == attempted'[Len(attempted')]
                 base == HistoricalScalars(base_sales_data, base_cost_data)
                 modified == HistoricalScalars(modified_sales_data', modified_cost_data')
             IN  /\ Len(attempted') = Len(attempted) + 1
                 /\ pc' = "grid_loop"
                 /\ modified_params'.total_investment
                        = RMul(base_params.total_investment, RDiv(R(100 + change[1]), R(100)))
                 /\ modified.unit_price
                        = RMul(base.unit_price, RDiv(R(100 + change[2]), R(100)))
                 /\ modified.material_cost_per_unit
                        = RMul(base.material_cost_per_unit, RDiv(R(100 + change[3]), R(100)))
                 /\ modified.processing_cost_per_unit
                        = RMul(base.processing_cost_per_unit, RDiv(R(100 + change[3]), R(100)))
                 /\ modified_sales_data'.volume = base_sales_data.volume]_vars

GridIsExhaustiveWitness ==
    /\ pc = "grid_done"
    /\ Len(attempted) = GridSize
    /\ Len(sample_points) = GridSize - 1
    /\ attempted[1] \notin SeqRange(sample_points)
    /\ modified_params.total_investment = R(1800)
    /\ regression = "LinearFit"

----------------------------------------------------------------------------
(* What the callers make of the solver's result *)

\* Python's truth value of an IRR: None and 0.0 are false
truthy(v) == v.solved /\ v.value # Zero

\* irr_pct = analysis_results['irr'] * 100 if analysis_results['irr'] else 0
DisplayAnalysisResults ==
    /\ pc = "irr_done"
    /\ solver = "analyzer"
    /\ irr_pct' = IF truthy(irr) THEN RMul(irr.value, R(100)) ELSE Zero
    /\ pc' = "shown"
    /\ UNCHANGED <<projection_vars, cash_flows, irr, solver_vars, npv_value, api_irr,
                   sampler_vars, session_vars>>

\* 'irr': results['irr'] * 100 if results['irr'] else None
ApiAnalyze ==
    /\ pc = "irr_done"
    /\ solver = "flask"
    /\ api_irr' = IF truthy(irr) THEN Some(RMul(irr.value, R(100))) ELSE None
    /\ pc' = "shown"
    /\ UNCHANGED <<projection_vars, cash_flows, irr, solver_vars, npv_value, irr_pct,
                   sampler_vars, session_vars>>

NextPresentation == NextIrr \/ DisplayAnalysisResults \/ ApiAnalyze

SpecPresentation == InitIrr /\ [][NextPresentation]_vars

\* C17: what is shown keeps Unsolved and a rate of 0.0 apart: an Unsolved IRR is not
\* shown as the number 0, and a solved IRR is not reported as absent.
UnsolvedAndZeroStayDistinct ==
    pc = "shown" =>
        /\ solver = "analyzer" => (~irr.solved => irr_pct # Zero)
        /\ solver = "flask" => (irr.solved => api_irr.solved)

----------------------------------------------------------------------------
(* Further properties of the projection *)

\* C18: in every engine the unit price is the historical revenue divided by the
\* historical volume when that volume is positive, and 0 when it is 0.
UnitPriceGuarded ==
    pc \in {"loop", "done", "raised"} =>
        unit_price = IF sales_data[2] > 0
                     THEN RDiv(R(sales_data[1]), R(sales_data[2]))
                     ELSE Zero

----------------------------------------------------------------------------
(* Further properties of the solvers *)

\* the sum over k = 1..n of cfs[k] / (1 + r)^(first + k - 1)
RECURSIVE DiscountedSum(_, _, _, _)
DiscountedSum(cfs, r, first, n) ==
    IF n = 0 THEN Zero
    ELSE RAdd(DiscountedSum(cfs, r, first, n - 1),
              RDiv(cfs[n], RPow(RAdd(R(1), r), first + n - 1)))

\* C19 as stated: the NPV the solver evaluates at a rate discounts the k-th cash flow by
\* (1 + rate)^k, k = 1..N, so that no cash flow enters undiscounted.
NpvDiscountsFromYearOne ==
    [][(pc \in {"irr_validate", "newton"})
          => npv_value' = DiscountedSum(cash_flows, rate, 1, Len(cash_flows))]_vars

\* C19 as the code has it: the NPV the solver evaluates at a rate discounts the k-th cash
\* flow by (1 + rate)^(k - 1), k = 1..N: the first cash flow enters undiscounted.
NpvDiscountsFromYearZero ==
    [][(pc \in {"irr_validate", "newton"})
          => npv_value' = DiscountedSum(cash_flows, rate, 0, Len(cash_flows))]_vars

NpvDiscountsFromYearZeroWitness ==
    /\ pc = "irr_done"
    /\ irr_path = "rejected"
    /\ Len(cash_flows) = MaxFlows
    /\ cash_flows[1] # Zero
    /\ rate = R(1)
    /\ npv_value = DiscountedSum(cash_flows, rate, 0, Len(cash_flows))
    /\ npv_value # DiscountedSum(cash_flows, rate, 1, Len(cash_flows))

\* C20: a cash-flow series without a negative entry, the all-zero series included, is
\* answered with Unsolved.
NonNegativeSeriesUnsolved ==
    (/\ pc = "irr_done"
     /\ Len(cash_flows) > 0
     /\ \A k \in 1..Len(cash_flows) : ~RLess(cash_flows[k], Zero))
        => ~irr.solved

----------------------------------------------------------------------------
(* The reference project: 400,000,000 over 4 + 15 years *)

\* the reference parameters; the loan's grace and repayment periods vary, and no
\* working capital is held
ReferenceParams ==
    [business_period : {15}, construction_period : {4},
     total_investment : {400000000},
     machinery_ratio : {80}, building_ratio : {20},
     debt_ratio : {50}, long_term_rate : {10},
     grace_period : GracePeriods, repayment_period : {2, 8},
     tax_rate : {25}, sales_admin_ratio : {4},
     receivables_days : {0}, payables_days : {0},
     product_inventory_days : {0}, material_inventory_days : {0},
     year5_volume : {70000}, year6_volume : {80000}, year7_plus_volume : {100000},
     machinery_depreciation_years : {15}, building_depreciation_years : {20}]

InitReference ==
    /\ engine \in Engines
    /\ params \in ReferenceParams
    /\ sales_data = <<46500000, 77500>>
    /\ cost_data = <<465, 160>>
    /\ pc = "start"
    /\ unit_price = Zero
    /\ material_cost_per_unit = Zero
    /\ processing_cost_per_unit = Zero
    /\ annual_repayment = Zero
    /\ year = 0
    /\ debt_balance = Zero
    /\ previous_working_capital = Zero
    /\ results = <<>>
    /\ cash_flows = <<>>
    /\ irr = None
    /\ solver = "none"
    /\ rate = Zero
    /\ iterations = 0
    /\ irr_path = "none"
    /\ npv_value = Zero
    /\ CallerIdle

NextReference == Start \/ YearStep \/ Finish

SpecReference == InitReference /\ [][NextReference]_vars

\* C21 as stated: the reference project has 19 yearly records, no depreciation in the
\* years 1..4, a depreciation of exactly 25,333,333 in year 5, a sales volume of 70,000
\* and a revenue of 42,000,000 in year 5.
ReferenceFiguresTruncated ==
    /\ pc = "done" => Len(results) = 19
    /\ \A y \in Years :
           /\ y <= 4 => results[y].depreciation = Zero
           /\ y = 5 => /\ results[y].depreciation = R(25333333)
                       /\ results[y].sales_volume = R(70000)
                       /\ results[y].total_revenue = R(42000000)

\* C21 as the code has it: the same, with the depreciation of year 5 being
\* 320,000,000/15 + 80,000,000/20 = 76,000,000/3 (25,333,333.33...), not cut to an integer.
ReferenceFigures ==
    /\ pc = "done" => Len(results) = 19
    /\ pc \in {"loop", "done"} => unit_price = R(600)
    /\ \A y \in Years :
           /\ y <= 4 => results[y].depreciation = Zero
           /\ y = 5 => /\ results[y].depreciation = Norm(76000000, 3)
                       /\ results[y].sales_volume = R(70000)
                       /\ results[y].total_revenue = R(42000000)

ReferenceFiguresWitness ==
    /\ pc = "done"
    /\ Len(results) = 19
    /\ params.total_investment = 400000000
    /\ results[5].depreciation = Norm(76000000, 3)
    /\ results[5].total_revenue = R(42000000)

----------------------------------------------------------------------------
(* Further properties of the projection, continued *)

\* C22: when no year of the run sells anything, every year has no revenue, no sales and
\* administration cost and no working capital (so no working-capital increase and no
\* recovery), and every operating year has ebit = -manufacturing cost = -depreciation.
ZeroVolumeProjection ==
    (\A y \in 1..total_period(params) : sales_volume(engine, params, y) = 0) =>
        \A y \in Years :
            LET yd == results[y]
            IN  /\ yd.total_revenue = Zero
                /\ yd.sales_admin_cost = Zero
                /\ yd.working_capital = Zero
                /\ yd.working_capital_increase = Zero
                /\ yd.working_capital_recovery = Zero
                /\ y > params.construction_period =>
                       /\ yd.ebit = RNeg(yd.manufacturing_cost)
                       /\ yd.manufacturing_cost = yd.depreciation

----------------------------------------------------------------------------
(* Calls within one process and numpy's global random generator *)

MaxCalls == 4

\* np.random.seed(42)
seed == 42

\* num_simulations of calculate_risk_metrics
num_simulations == 10000

\* the states the generator of a fresh process may be in (seeded from the system)
FreshStates == 0..2

\* np.random.normal at a generator state: the value is a function of the state
normal(state) ==
    CASE state % 3 = 0 -> Norm(2, 5)
      [] state % 3 = 1 -> Norm(6, 5)
      [] OTHER -> Norm(5, 2)

\* the factors of the n draws of one sampler call that starts at a generator state
drawn_factors(state, n) == [k \in 1..n |-> clamp(normal(state + k - 1))]

InitProcess ==
    /\ EngineIdle
    /\ SamplerIdle
    /\ pc = "process"
    /\ rng_state \in FreshStates
    /\ call_log = <<>>
    /\ current_page = "input"
    /\ current_mode = "real"
    /\ session_keys = {}
    /\ rendered = "nothing"

process_frame ==
    <<projection_vars, cash_flows, irr, solver_vars, npv_value, presentation_vars,
      sampler_vars, pc, current_page, current_mode, session_keys, rendered>>

\* perform_single_variable_monte_carlo: every draw takes the next value of the global
\* generator; the inputs of the call are the same in every call but for n_simulations
SamplerCall ==
    /\ pc = "process"
    /\ Len(call_log) < MaxCalls
    /\ \E n \in 1..MaxSimulations :
           /\ call_log' = Append(call_log, [kind |-> "sampler", n_simulations |-> n,
                                            seen |-> rng_state,
                                            factors |-> drawn_factors(rng_state, n)])
           /\ rng_state' = rng_state + n
    /\ UNCHANGED process_frame

\* FinancialCalculator.calculate_risk_metrics on one cash flow: it seeds the global
\* generator and draws num_simulations values from it
RiskMetricsCall ==
    /\ pc = "process"
    /\ Len(call_log) < MaxCalls
    /\ call_log' = Append(call_log, [kind |-> "risk_metrics", n_simulations |-> 0,
                                     seen |-> seed,
                                     factors |-> drawn_factors(seed, 0)])
    /\ rng_state' = seed + num_simulations
    /\ UNCHANGED process_frame

NextProcess == SamplerCall \/ RiskMetricsCall

SpecProcess == InitProcess /\ [][NextProcess]_vars

\* C24: calls are pure: two sampler calls with equal inputs return equal results
\* whatever ran before or between them, and no call changes the generator state that
\* another call sees.
CallsArePure ==
    /\ [](\A i, j \in 1..Len(call_log) :
              (/\ call_log[i].kind = "sampler"
               /\ call_log[j].kind = "sampler"
               /\ call_log[i].n_simulations = call_log[j].n_simulations)
                  => call_log[i].factors = call_log[j].factors)
    /\ [][rng_state' = rng_state]_vars

----------------------------------------------------------------------------
(* Further properties of the sampler *)

\* C25: no failure of an engine run leaves the sampler, the base-case run included: a
\* call ends with a summary or with NoData.
SamplerNeverRaises == pc # "mc_raised"

----------------------------------------------------------------------------
(* The single-pass loop against the multi-pass definition *)

\* pass 1 of the multi-pass definition: the working capital of year y from the year's
\* revenue and material cost alone
MultiPassWorkingCapital(y) ==
    LET vol == R(sales_volume(engine, params, y))
    IN  working_capital(engine, params, RMul(unit_price, vol),
                        RMul(material_cost_per_unit, vol))

\* the forward difference over the working capital of all years
MultiPassIncrease(y) ==
    IF y > params.construction_period
    THEN RSub(MultiPassWorkingCapital(y),
              IF y = 1 THEN Zero ELSE MultiPassWorkingCapital(y - 1))
    ELSE Zero

\* the debt folded in increasing year order
RECURSIVE MultiPassBalance(_)
MultiPassBalance(y) ==
    IF y = 0
    THEN Zero
    ELSE LET borrowed == RMul(investment(params, y), Pct(params.debt_ratio))
             repaid == IF y > params.grace_period
                          /\ y <= params.grace_period + params.repayment_period
                       THEN RDiv(RMul(R(params.total_investment), Pct(params.debt_ratio)),
                                 R(params.repayment_period))
                       ELSE Zero
         IN  RSub(RAdd(MultiPassBalance(y - 1), borrowed), repaid)

\* C26: the year loop with its running balance and its running previous working capital
\* records, in every year, the debt balance, the financial cost and the working-capital
\* increase of the multi-pass definition (all working capitals first, then the
\* differences; the debt folded year by year)
SinglePassRefinesMultiPass ==
    \A y \in Years :
        /\ results[y].debt_balance = MultiPassBalance(y)
        /\ results[y].financial_cost = RMul(MultiPassBalance(y), Pct(params.long_term_rate))
        /\ results[y].working_capital_increase = MultiPassIncrease(y)

\* a finished run whose last construction year already has working capital, so that the
\* running value carried into the first operating year is not 0, and which repaid debt
SinglePassRefinesMultiPassWitness ==
    /\ pc = "done"
    /\ \E y \in Years :
          /\ y = params.construction_period
          /\ y + 1 \in Years
          /\ IsFinite(results[y].working_capital)
          /\ results[y].working_capital # Zero
          /\ IsFinite(results[y + 1].working_capital_increase)
          /\ results[y + 1].working_capital_increase # results[y + 1].working_capital
    /\ \E y \in Years :
          /\ results[y].debt_decrease # Zero
          /\ results[y].debt_balance # Zero

----------------------------------------------------------------------------
(* Ranges of the projection's figures *)

\* C27: the debt balance of every year is at least 0: what has been repaid up to a year
\* never exceeds what has been borrowed up to it
DebtBalanceNonNegative ==
    \A y \in Years : RLeq(Zero, results[y].debt_balance)

\* the sum of the working-capital increases of the years 1..n
RECURSIVE WorkingCapitalIncreases(_)
WorkingCapitalIncreases(n) ==
    IF n = 0
    THEN Zero
    ELSE RAdd(WorkingCapitalIncreases(n - 1), results[n].working_capital_increase)

\* C28: working capital is fully recovered: in a finished projection the working-capital
\* increases of all years add up to the working capital recovered in the final year, which
\* is the final year's working capital
WorkingCapitalFullyRecovered ==
    (pc = "done" /\ Len(results) > 0) =>
        LET last == results[Len(results)]
        IN  /\ last.working_capital_recovery = last.working_capital
            /\ WorkingCapitalIncreases(Len(results)) = last.working_capital_recovery

----------------------------------------------------------------------------
(* Projects that run as long as, and longer than, the assets' useful lives *)

\* business periods up to and beyond the 15 and 20 years over which machinery and
\* buildings are written off; the input form accepts 1..50
LongBusinessPeriods == {15, 16, 21}

LongProjectParams ==
    [business_period : LongBusinessPeriods,
     construction_period : {4},
     total_investment : {1200},
     machinery_ratio : {80}, building_ratio : {20},
     debt_ratio : {50}, long_term_rate : {10},
     grace_period : GracePeriods, repayment_period : {2, 8},
     tax_rate : {25}, sales_admin_ratio : {4},
     receivables_days : {0}, payables_days : {0},
     product_inventory_days : {0}, material_inventory_days : {0},
     year5_volume : {70000}, year6_volume : {80000}, year7_plus_volume : {100000},
     machinery_depreciation_years : {15}, building_depreciation_years : {20}]

InitLongProject ==
    /\ engine \in Engines
    /\ params \in LongProjectParams
    /\ sales_data = <<20, 10>>
    /\ cost_data = <<1, 1>>
    /\ pc = "start"
    /\ unit_price = Zero
    /\ material_cost_per_unit = Zero
    /\ processing_cost_per_unit = Zero
    /\ annual_repayment = Zero
    /\ year = 0
    /\ debt_balance = Zero
    /\ previous_working_capital = Zero
    /\ results = <<>>
    /\ cash_flows = <<>>
    /\ irr = None
    /\ solver = "none"
    /\ rate = Zero
    /\ iterations = 0
    /\ irr_path = "none"
    /\ npv_value = Zero
    /\ CallerIdle

NextLongProject == Start \/ YearStep \/ Finish

SpecLongProject == InitLongProject /\ [][NextLongProject]_vars

\* the years in which depreciation is charged
DepreciatingYears == {y \in Years : results[y].depreciation # Zero}

\* C29: when the machinery and building shares together are at most the whole investment,
\* a finished projection has a residual value of at least 0 in its final year, the
\* depreciation of all years together is at most the total investment, and no asset class
\* is written off in more years than its depreciation period (15 for machinery, 20 for
\* buildings)
ResidualValueNonNegative ==
    (/\ pc = "done"
     /\ Len(results) > 0
     /\ params.machinery_ratio + params.building_ratio <= 100) =>
        /\ RLeq(Zero, results[Len(results)].residual_value)
        /\ RLeq(AccumulatedDepreciation(1, Len(results)), R(params.total_investment))
        /\ params.machinery_ratio > 0 => Cardinality(DepreciatingYears) <= 15
        /\ params.building_ratio > 0 => Cardinality(DepreciatingYears) <= 20

----------------------------------------------------------------------------
(* The dashboard's pages: one action per run of the script *)

\* the pages the top menu leads to; the last four only in the real mode
MenuPages(mode) ==
    IF mode = "real"
    THEN {"input", "auth_management", "auth_request", "auth_received", "approval_status"}
    ELSE {"input"}

\* the parameter sets a user submits on the input page
FormParams == ReferenceParams \cup LongProjectParams

\* the last run showed a page: its buttons can be clicked
PageShown == rendered \notin {"nothing", "rerun"}

InitSession ==
    /\ EngineIdle
    /\ SamplerIdle
    /\ SessionIdle
    /\ pc = "session"

session_frame == <<sales_data, cost_data, engine, unit_price, material_cost_per_unit,
                   processing_cost_per_unit, annual_repayment, year, debt_balance,
                   previous_working_capital, results, cash_flows, irr, solver_vars,
                   npv_value, presentation_vars, sampler_vars, pc, rng_state, call_log>>

\* one of the two mode buttons of the top menu
ModeButton ==
    /\ pc = "session"
    /\ PageShown
    /\ \E m \in {"real", "practice"} : current_mode' = m
    /\ rendered' = "rerun"
    /\ UNCHANGED <<session_frame, params, current_page, session_keys>>

\* one of the page buttons of the top menu
MenuButton ==
    /\ pc = "session"
    /\ PageShown
    /\ \E page \in MenuPages(current_mode) : current_page' = page
    /\ rendered' = "rerun"
    /\ UNCHANGED <<session_frame, params, current_mode, session_keys>>

\* the submit button of the input page
Submit ==
    /\ pc = "session"
    /\ rendered = "input_page"
    /\ current_page = "input"
    /\ \E p \in FormParams : params' = p
    /\ session_keys' = session_keys \cup {"project_params"}
    /\ current_page' = "progress"
    /\ rendered' = "rerun"
    /\ UNCHANGED <<session_frame, current_mode>>

\* the progress page: the five steps, then on to 'analysis'
ShowProgressPage ==
    /\ pc = "session"
    /\ current_page = "progress"
    /\ current_page' = "analysis"
    /\ rendered' = "rerun"
    /\ UNCHANGED <<session_frame, params, current_mode, session_keys>>

\* what show_analysis_page leaves behind: <<current_page, session_keys, rendered>>
show_analysis_page(new_analysis) ==
    IF new_analysis
    THEN <<"input", session_keys \ {"project_params"}, "rerun">>
    ELSE IF "project_params" \notin session_keys
         THEN <<"input", session_keys, "rerun">>
         ELSE <<current_page, session_keys \cup {"cost_data", "sales_data"},
                "analysis_page">>

\* the page a guarded route shows: the page itself when the session holds analysis
\* results, the request to enter data first otherwise
guarded_route(page, warning) ==
    IF "analysis_results" \in session_keys
    THEN <<current_page, session_keys, page>>
    ELSE <<current_page, session_keys, warning>>

\* a run of the script without a click on the top menu: the routing of main
Route ==
    /\ pc = "session"
    /\ current_page # "progress"
    /\ \E new_analysis \in {FALSE, rendered = "analysis_page"} :
          LET after ==
                  CASE current_page = "input" -> <<current_page, session_keys, "input_page">>
                    [] current_page = "analysis" ->
                          IF "analysis_results" \in session_keys
                          THEN show_analysis_page(new_analysis)
                          ELSE <<current_page, session_keys, "warning_analysis">>
                    [] current_page = "sensitivity" ->
                          guarded_route("sensitivity_page", "warning_sensitivity")
                    [] current_page = "monte_carlo" ->
                          guarded_route("monte_carlo_page", "warning_monte_carlo")
                    [] current_page = "results" -> show_analysis_page(new_analysis)
                    [] OTHER -> <<current_page, session_keys, current_page>>
          IN  /\ current_page' = after[1]
              /\ session_keys' = after[2]
              /\ rendered' = after[3]
    /\ UNCHANGED <<session_frame, params, current_mode>>

\* the button under the request to enter data first
WarningButton ==
    /\ pc = "session"
    /\ rendered \in {"warning_analysis", "warning_sensitivity", "warning_monte_carlo"}
    /\ current_page' = "input"
    /\ rendered' = "rerun"
    /\ UNCHANGED <<session_frame, params, current_mode, session_keys>>

NextSession ==
    ModeButton \/ MenuButton \/ Submit \/ ShowProgressPage \/ Route \/ WarningButton

\* a run the script asked for, by st.rerun() or by a click, is carried out
SpecSession ==
    InitSession /\ [][NextSession]_vars /\ WF_vars(ShowProgressPage) /\ WF_vars(Route)

\* C30: once the parameters are submitted (project_params stored, the progress page up
\* next) the session comes to show the analysis page with the results; and the
\* sensitivity and Monte Carlo pages are shown only while the session holds analysis
\* results
SubmittedReachesAnalysis ==
    /\ ("project_params" \in session_keys /\ current_page = "progress")
           ~> (rendered = "analysis_page")
    /\ [](rendered \in {"sensitivity_page", "monte_carlo_page"}
              => "analysis_results" \in session_keys)

====
